---------------------------- MODULE Spec2Model ----------------------------
(***************************************************************************)
(* warp: a reader and evaluator for a Lisp-like source (src/src/main.rs).  *)
(*                                                                         *)
(* main tokenizes the source, AST::read folds the tokens into a flat       *)
(* HashMap<usize, SExp> (the arena), and the loop at the end of main calls *)
(* eval at a cursor, moving the cursor past the largest id eval reports.   *)
(*                                                                         *)
(* Rust Strings are modelled as sequences of one-character strings, so     *)
(* that parsing and formatting are computed character by character.        *)
(***************************************************************************)
EXTENDS Integers, Sequences, FiniteSets, TLC

\* Longest token vector of Spec (every kind of token).
MaxLen == 4

\* Longest token vector of SpecNest (one kind of container, scalar and marker).
MaxNestLen == 8

\* Longest source text of SpecTok, in characters.
MaxSrcLen == 4

VARIABLES
    contents,   \* main: the text of ./src.clj, handed to AST::tokenize
    tokens,     \* main: the Vec<Token> handed to AST::read (each token its value)
    pos,        \* read: index of the token the for loop takes next (1-based)
    items,      \* read: HashMap<usize, SExp>, later AST.items
    sexps,      \* read: Vec<SExp>, the containers still open
    id,         \* read: the id counter
    ids,        \* read: VecDeque<usize>, the ids reserved for the open containers
    phase,      \* where main is: "tokenize", "read", "panic", "loop", "exit"
    pc,         \* main: the cursor of the while loop
    out,        \* stdout, one entry per println!
    rendered,   \* history: the arena keys whose SExp was printed, in order
    cursors     \* history: the values of pc at which main called eval, in order

vars == <<contents, tokens, pos, items, sexps, id, ids, phase, pc, out, rendered, cursors>>

-----------------------------------------------------------------------------
(* Strings *)

Str1(c) == <<c>>

Digits == <<"0", "1", "2", "3", "4", "5", "6", "7", "8", "9">>

IsDigit(c) == \E d \in 1..10 : Digits[d] = c

DigitVal(c) == (CHOOSE d \in 1..10 : Digits[d] = c) - 1

AllDigits(s) == \A k \in 1..Len(s) : IsDigit(s[k])

RECURSIVE DigitsVal(_)
DigitsVal(s) ==
    IF s = <<>> THEN 0
    ELSE 10 * DigitsVal(SubSeq(s, 1, Len(s) - 1)) + DigitVal(s[Len(s)])

RECURSIVE NatToString(_)
NatToString(n) ==
    IF n < 10 THEN <<Digits[n + 1]>>
    ELSE NatToString(n \div 10) \o <<Digits[(n % 10) + 1]>>

RECURSIVE Join(_, _)
Join(strs, sep) ==
    IF strs = <<>> THEN <<>>
    ELSE IF Len(strs) = 1 THEN strs[1]
    ELSE strs[1] \o sep \o Join(Tail(strs), sep)

-----------------------------------------------------------------------------
(* Atom *)

\* enum Atom: every variant as a record of one shape (the fields a variant
\* does not use are empty or 0). Keyword and String are never constructed.
AtomSymbol(s)    == [tag |-> "Symbol",    text |-> s,    num |-> 0, scale |-> 0]
AtomInt(v)       == [tag |-> "Int",       text |-> <<>>, num |-> v, scale |-> 0]
AtomBoolean(b)   == [tag |-> "Boolean",   text |-> <<>>, num |-> IF b THEN 1 ELSE 0, scale |-> 0]
AtomReference(v) == [tag |-> "Reference", text |-> <<>>, num |-> v, scale |-> 0]
\* An f64 written in decimal: sign, the digits without the point (num) and the
\* number of them after the point (scale), trailing zeros after the point cut.
AtomFloat(sign, m, k) == [tag |-> "Float", text |-> sign, num |-> m, scale |-> k]

\* str::parse::<i64>: an optional sign and at least one digit, nothing else.
\* (The numerals of the token alphabets are far below the i64 limits.)
ParseInt(s) ==
    LET signed == s # <<>> /\ s[1] \in {"+", "-"}
        body   == IF signed THEN Tail(s) ELSE s
    IN  IF body # <<>> /\ AllDigits(body)
        THEN [ok |-> TRUE,
              val |-> IF signed /\ s[1] = "-" THEN 0 - DigitsVal(body) ELSE DigitsVal(body)]
        ELSE [ok |-> FALSE, val |-> 0]

RECURSIVE StripZeros(_)
StripZeros(s) ==
    IF s # <<>> /\ s[Len(s)] = "0" THEN StripZeros(SubSeq(s, 1, Len(s) - 1)) ELSE s

\* str::parse::<f64> on decimal numerals: an optional sign, digits with at most
\* one point among them and at least one digit. (Exponents and the spellings
\* of infinity and NaN are outside the token alphabets.)
ParseFloat(s) ==
    LET signed == s # <<>> /\ s[1] \in {"+", "-"}
        body   == IF signed THEN Tail(s) ELSE s
        points == {k \in 1..Len(body) : body[k] = "."}
        p      == IF points = {} THEN Len(body) + 1 ELSE CHOOSE k \in points : TRUE
        whole  == SubSeq(body, 1, p - 1)
        frac   == StripZeros(SubSeq(body, p + 1, Len(body)))
    IN  IF /\ Cardinality(points) <= 1
           /\ AllDigits(whole) /\ AllDigits(SubSeq(body, p + 1, Len(body)))
           /\ Len(body) - Cardinality(points) >= 1
        THEN [ok |-> TRUE,
              val |-> AtomFloat(IF signed /\ s[1] = "-" THEN <<"-">> ELSE <<>>,
                                DigitsVal(whole \o frac), Len(frac))]
        ELSE [ok |-> FALSE, val |-> AtomSymbol(s)]

\* Atom::infer
infer(src) ==
    IF src = <<"t", "r", "u", "e">> THEN AtomBoolean(TRUE)
    ELSE IF src = <<"f", "a", "l", "s", "e">> THEN AtomBoolean(FALSE)
    ELSE IF ParseInt(src).ok THEN AtomInt(ParseInt(src).val)
    ELSE IF ParseFloat(src).ok THEN ParseFloat(src).val
    ELSE AtomSymbol(src)

\* The last k characters of the decimal digits of n, zero-padded on the left.
RECURSIVE LastDigits(_, _)
LastDigits(n, k) ==
    IF k = 0 THEN <<>> ELSE LastDigits(n \div 10, k - 1) \o <<Digits[(n % 10) + 1]>>

RECURSIVE Pow10(_)
Pow10(k) == IF k = 0 THEN 1 ELSE 10 * Pow10(k - 1)

\* impl fmt::Display for Atom
AtomToString(atom) ==
    CASE atom.tag = "Boolean"   -> IF atom.num = 1 THEN <<"t", "r", "u", "e">>
                                   ELSE <<"f", "a", "l", "s", "e">>
      [] atom.tag = "Float"     -> atom.text \o NatToString(atom.num \div Pow10(atom.scale))
                                   \o (IF atom.scale = 0 THEN <<>>
                                       ELSE <<".">> \o LastDigits(atom.num, atom.scale))
      [] atom.tag = "Int"       -> IF atom.num < 0 THEN <<"-">> \o NatToString(0 - atom.num)
                                   ELSE NatToString(atom.num)
      [] atom.tag = "Reference" -> <<"%">> \o NatToString(atom.num)
      [] OTHER                  -> atom.text

-----------------------------------------------------------------------------
(* AST::tokenize *)

\* The character ` (a string of the model cannot hold it as itself).
Backtick == "backtick"

\* The token texts after which a character starts a new token (first match).
DelimiterTokens ==
    {Str1("{"), Str1("}"), Str1("["), Str1("]"), Str1("("), Str1(")"), Str1(" "),
     Str1("\n"), Str1("\""), Str1("'"), Str1("@"), Str1("~"), Str1(Backtick)}

\* The characters that start a new token (second match).
DelimiterChars ==
    {"}", "{", "]", "[", " ", ")", "(", "\n", "\"", "'", "@", "~", Backtick}

\* Mutant of ScanChar: the last token is not looked at, a character that is
\* no delimiter is added to it whatever it is.
ScanCharJoinsDelimiter(strings, c) ==
    IF strings = <<>> THEN <<Str1(c)>>
    ELSE IF c \in DelimiterChars THEN Append(strings, Str1(c))
    ELSE [strings EXCEPT ![Len(strings)] = Append(@, c)]

\* The body of `for c in src.chars()`.
ScanChar(strings, c) ==
    IF strings = <<>> THEN <<Str1(c)>>
    ELSE IF strings[Len(strings)] \in DelimiterTokens THEN Append(strings, Str1(c))
    ELSE IF c \in DelimiterChars THEN Append(strings, Str1(c))
    ELSE [strings EXCEPT ![Len(strings)] = Append(@, c)]

\* `for c in src.chars()` from the k-th character on.
RECURSIVE Scan(_, _, _)
Scan(strings, s, k) ==
    IF k > Len(s) THEN strings ELSE Scan(ScanChar(strings, s[k]), s, k + 1)

\* The strings the second loop of tokenize does not turn into tokens.
Skipped == {Str1(" "), Str1("\n"), Str1("\t")}

tokenize(s) == SelectSeq(Scan(<<>>, s, 1), LAMBDA str : str \notin Skipped)

-----------------------------------------------------------------------------
(* SExp *)

OpenTokens  == {Str1("("), Str1("["), Str1("{")}
CloseTokens == {Str1(")"), Str1("]"), Str1("}")}
QuoteTokens == {Str1("\""), Str1("'")}

\* Mutant of TypeOf: the arms of "[" and "{" are swapped.
TypeOfSwapped(t) ==
    CASE t = Str1("(")  -> <<"e", "x", "e", "c">>
      [] t = Str1("[")  -> <<"m", "a", "p">>
      [] t = Str1("{")  -> <<"v", "e", "c">>
      [] t = Str1("\"") -> <<"s", "t", "r", "i", "n", "g">>
      [] t = Str1("'")  -> <<"l", "i", "s", "t">>

\* SExp::new (the arms that do not panic)
TypeOf(t) ==
    CASE t = Str1("(")  -> <<"e", "x", "e", "c">>
      [] t = Str1("[")  -> <<"v", "e", "c">>
      [] t = Str1("{")  -> <<"m", "a", "p">>
      [] t = Str1("\"") -> <<"s", "t", "r", "i", "n", "g">>
      [] t = Str1("'")  -> <<"l", "i", "s", "t">>

SExpNew(t) == [_type |-> TypeOf(t), children |-> <<>>]

\* Mutant of SExpPush: children.insert(0, atom) in place of children.push(atom).
SExpPushFront(sexp, atom) == [sexp EXCEPT !.children = <<atom>> \o @]

\* SExp::push
SExpPush(sexp, atom) == [sexp EXCEPT !.children = Append(@, atom)]

\* Mutant of SExpToString: the first child is left out of the body.
SExpToStringSkipsFirst(sexp) ==
    <<"(">> \o sexp._type \o <<" ">>
    \o Join([k \in 1..(Len(sexp.children) - 1) |-> AtomToString(sexp.children[k + 1])], <<" ">>)
    \o <<")">>

\* impl fmt::Display for SExp
SExpToString(sexp) ==
    <<"(">> \o sexp._type \o <<" ">>
    \o Join([k \in 1..Len(sexp.children) |-> AtomToString(sexp.children[k])], <<" ">>)
    \o <<")">>

-----------------------------------------------------------------------------
(* AST::read *)

\* HashMap::insert: the entry under k is added, or replaced when k is a key.
MapInsert(m, k, v) == [j \in (DOMAIN m) \cup {k} |-> IF j = k THEN v ELSE m[j]]

\* `if let Some(sexp) = sexps.last_mut() { sexp.push(atom) }`
PushToLast(stack, atom) ==
    IF stack = <<>> THEN stack
    ELSE [stack EXCEPT ![Len(stack)] = SExpPush(@, atom)]

\* The locals of read as one record.
ReaderInit == [items |-> <<>>, sexps |-> <<>>, id |-> 0, ids |-> <<>>]

\* Mutant of OnOpen: the counter is incremented before the id is reserved.
OnOpenIncrementFirst(r, token) ==
    [items |-> r.items,
     sexps |-> Append(PushToLast(r.sexps, AtomReference(r.id)), SExpNew(token)),
     id    |-> r.id + 1,
     ids   |-> Append(r.ids, r.id + 1)]

\* Mutant of OnOpen: the counter is incremented before the Reference is made.
OnOpenReferenceAfterIncrement(r, token) ==
    [items |-> r.items,
     sexps |-> Append(PushToLast(r.sexps, AtomReference(r.id + 1)), SExpNew(token)),
     id    |-> r.id + 1,
     ids   |-> Append(r.ids, r.id)]

\* The arm "(" | "[" | "{" of the match.
OnOpen(r, token) ==
    [items |-> r.items,
     sexps |-> Append(PushToLast(r.sexps, AtomReference(r.id)), SExpNew(token)),
     id    |-> r.id + 1,
     ids   |-> Append(r.ids, r.id)]

\* Mutant of OnClose: ids.pop_front() in place of ids.pop_back().
OnClosePopFront(r) ==
    [items |-> MapInsert(r.items, r.ids[1], r.sexps[Len(r.sexps)]),
     sexps |-> SubSeq(r.sexps, 1, Len(r.sexps) - 1),
     id    |-> r.id,
     ids   |-> Tail(r.ids)]

\* Mutant of OnClose: the key is the number of containers left open, not the
\* id popped.
OnCloseKeyByDepth(r) ==
    [items |-> MapInsert(r.items, Len(r.ids) - 1, r.sexps[Len(r.sexps)]),
     sexps |-> SubSeq(r.sexps, 1, Len(r.sexps) - 1),
     id    |-> r.id,
     ids   |-> SubSeq(r.ids, 1, Len(r.ids) - 1)]

\* Mutant of OnClose: the container committed stays on sexps
\* (sexps.last().cloned() in place of sexps.pop()).
OnCloseKeepsOpen(r) ==
    [items |-> MapInsert(r.items, r.ids[Len(r.ids)], r.sexps[Len(r.sexps)]),
     sexps |-> r.sexps,
     id    |-> r.id,
     ids   |-> SubSeq(r.ids, 1, Len(r.ids) - 1)]

\* The arm ")" | "]" | "}" of the match, when ids.pop_back() is Some.
OnClose(r) ==
    [items |-> MapInsert(r.items, r.ids[Len(r.ids)], r.sexps[Len(r.sexps)]),
     sexps |-> SubSeq(r.sexps, 1, Len(r.sexps) - 1),
     id    |-> r.id,
     ids   |-> SubSeq(r.ids, 1, Len(r.ids) - 1)]

\* Mutant of OnAtom: an atom met while no container is open is kept, in a
\* container opened for it.
OnAtomWrapsTopLevel(r, token) ==
    IF r.sexps = <<>>
    THEN [r EXCEPT !.sexps = <<SExpPush(SExpNew(Str1("(")), infer(token))>>]
    ELSE [r EXCEPT !.sexps = PushToLast(@, infer(token))]

\* The arm _ of the match.
OnAtom(r, token) == [r EXCEPT !.sexps = PushToLast(@, infer(token))]

\* Whether the arm ")" | "]" | "}" panics: ids.pop_back().expect(..) on an
\* empty deque (sexps.pop().unwrap() is evaluated after it).
ClosePanics(r) == r.ids = <<>>

\* read as a function of the whole token vector: the loop run to its end.
\* panicked: the call did not return.
RECURSIVE ReadFrom(_, _, _)
ReadFrom(r, toks, k) ==
    IF k > Len(toks) THEN [panicked |-> FALSE, items |-> r.items]
    ELSE IF toks[k] \in QuoteTokens THEN ReadFrom(r, toks, k + 1)
    ELSE IF toks[k] \in OpenTokens THEN ReadFrom(OnOpen(r, toks[k]), toks, k + 1)
    ELSE IF toks[k] \in CloseTokens
         THEN IF ClosePanics(r) THEN [panicked |-> TRUE, items |-> <<>>]
              ELSE ReadFrom(OnClose(r), toks, k + 1)
    ELSE ReadFrom(OnAtom(r, toks[k]), toks, k + 1)

read(toks) == ReadFrom(ReaderInit, toks, 1)

\* The locals of read in the current state.
Reader == [items |-> items, sexps |-> sexps, id |-> id, ids |-> ids]

SetReader(r) ==
    /\ items' = r.items
    /\ sexps' = r.sexps
    /\ id' = r.id
    /\ ids' = r.ids

InRead == phase = "read" /\ pos <= Len(tokens)

\* main: let tokens = AST::tokenize(contents).
Tokenize ==
    /\ phase = "tokenize"
    /\ tokens' = tokenize(contents)
    /\ phase' = "read"
    /\ UNCHANGED <<contents, pos, items, sexps, id, ids, pc, out, rendered, cursors>>

\* Mutant of ReadQuote: the marker opens a container of the kind SExp::new
\* gives it.
ReadQuoteOpens ==
    /\ InRead
    /\ tokens[pos] \in QuoteTokens
    /\ SetReader(OnOpen(Reader, tokens[pos]))
    /\ pos' = pos + 1
    /\ UNCHANGED <<contents, tokens, phase, pc, out, rendered, cursors>>

\* One iteration of `for token in tokens`, arm "\"" and arm "'".
ReadQuote ==
    /\ InRead
    /\ tokens[pos] \in QuoteTokens
    /\ pos' = pos + 1
    /\ UNCHANGED <<contents, tokens, items, sexps, id, ids, phase, pc, out, rendered, cursors>>

\* One iteration, arm "(" | "[" | "{".
ReadOpen ==
    /\ InRead
    /\ tokens[pos] \in OpenTokens
    /\ SetReader(OnOpen(Reader, tokens[pos]))
    /\ pos' = pos + 1
    /\ UNCHANGED <<contents, tokens, phase, pc, out, rendered, cursors>>

\* Mutant of ReadClose: a closing delimiter met while ids is empty is skipped
\* (if let Some(id) = ids.pop_back() in place of expect).
ReadCloseLenient ==
    /\ InRead
    /\ tokens[pos] \in CloseTokens
    /\ IF ClosePanics(Reader)
       THEN UNCHANGED <<items, sexps, id, ids>>
       ELSE SetReader(OnClose(Reader))
    /\ pos' = pos + 1
    /\ UNCHANGED <<contents, tokens, phase, pc, out, rendered, cursors>>

\* Mutant of ReadClose: a closing delimiter that is not the one of the
\* innermost open container panics as well.
ReadCloseChecksKind ==
    /\ InRead
    /\ tokens[pos] \in CloseTokens
    /\ LET wanted == [e \in {"e"} |-> Str1(")")] @@ [v \in {"v"} |-> Str1("]")]
                     @@ [m \in {"m"} |-> Str1("}")]
       IN  IF ClosePanics(Reader) \/ wanted[sexps[Len(sexps)]._type[1]] # tokens[pos]
           THEN /\ phase' = "panic"
                /\ UNCHANGED <<pos, items, sexps, id, ids>>
           ELSE /\ SetReader(OnClose(Reader))
                /\ pos' = pos + 1
                /\ UNCHANGED phase
    /\ UNCHANGED <<contents, tokens, pc, out, rendered, cursors>>

\* One iteration, arm ")" | "]" | "}": the insert, or the panic of expect.
ReadClose ==
    /\ InRead
    /\ tokens[pos] \in CloseTokens
    /\ IF ClosePanics(Reader)
       THEN /\ phase' = "panic"
            /\ UNCHANGED <<pos, items, sexps, id, ids>>
       ELSE /\ SetReader(OnClose(Reader))
            /\ pos' = pos + 1
            /\ UNCHANGED phase
    /\ UNCHANGED <<contents, tokens, pc, out, rendered, cursors>>

\* One iteration, arm _.
ReadAtom ==
    /\ InRead
    /\ tokens[pos] \notin QuoteTokens \cup OpenTokens \cup CloseTokens
    /\ SetReader(OnAtom(Reader, tokens[pos]))
    /\ pos' = pos + 1
    /\ UNCHANGED <<contents, tokens, phase, pc, out, rendered, cursors>>

\* The tokens are used up: read returns AST { items } and main sets pc to 0.
ReadReturn ==
    /\ phase = "read"
    /\ pos > Len(tokens)
    /\ phase' = "loop"
    /\ pc' = 0
    /\ UNCHANGED <<contents, tokens, pos, items, sexps, id, ids, out, rendered, cursors>>

-----------------------------------------------------------------------------
(* eval and the loop of main *)

\* eval(ast, env, pc): the value returned, the lines printed and (history) the
\* keys they were printed for. EvalChildren is the for loop over the children
\* from the k-th on, acc what the call has gathered before it.
RECURSIVE eval(_, _), EvalChildren(_, _, _, _)
RECURSIVE EvalChildrenKeepsMax(_, _, _, _), EvalChildrenDirectOnly(_, _, _, _)
\* Mutant of eval: max_pc starts at 0 in place of pc.
evalMaxFromZero(ast, at) ==
    IF at \in DOMAIN ast
    THEN EvalChildren(ast, ast[at].children, 1,
                      [max_pc |-> 0, out |-> <<SExpToString(ast[at])>>, keys |-> <<at>>])
    ELSE [max_pc |-> 0, out |-> <<>>, keys |-> <<>>]

eval(ast, at) ==
    IF at \in DOMAIN ast
    THEN EvalChildren(ast, ast[at].children, 1,
                      [max_pc |-> at, out |-> <<SExpToString(ast[at])>>, keys |-> <<at>>])
    ELSE [max_pc |-> at, out |-> <<>>, keys |-> <<>>]

\* Mutant of EvalChildren: max_pc is never raised, eval returns its argument.
EvalChildrenKeepsMax(ast, children, k, acc) ==
    IF k > Len(children) THEN acc
    ELSE IF children[k].tag = "Reference"
    THEN LET sub == eval(ast, children[k].num)
         IN  EvalChildrenKeepsMax(ast, children, k + 1,
                                  [max_pc |-> acc.max_pc,
                                   out    |-> acc.out \o sub.out,
                                   keys   |-> acc.keys \o sub.keys])
    ELSE EvalChildrenKeepsMax(ast, children, k + 1, acc)

\* Mutant of EvalChildren: local_max, the value of the recursive call, is
\* dropped; only the direct reference raises max_pc.
EvalChildrenDirectOnly(ast, children, k, acc) ==
    IF k > Len(children) THEN acc
    ELSE IF children[k].tag = "Reference"
    THEN LET n   == children[k].num
             sub == eval(ast, n)
         IN  EvalChildrenDirectOnly(ast, children, k + 1,
                                    [max_pc |-> IF n > acc.max_pc THEN n ELSE acc.max_pc,
                                     out    |-> acc.out \o sub.out,
                                     keys   |-> acc.keys \o sub.keys])
    ELSE EvalChildrenDirectOnly(ast, children, k + 1, acc)

EvalChildren(ast, children, k, acc) ==
    IF k > Len(children) THEN acc
    ELSE IF children[k].tag = "Reference"
    THEN LET n         == children[k].num
             direct    == IF n > acc.max_pc THEN n ELSE acc.max_pc
             sub       == eval(ast, n)
             local_max == sub.max_pc
         IN  EvalChildren(ast, children, k + 1,
                          [max_pc |-> IF local_max > direct THEN local_max ELSE direct,
                           out    |-> acc.out \o sub.out,
                           keys   |-> acc.keys \o sub.keys])
    ELSE EvalChildren(ast, children, k + 1, acc)

\* Mutant of MainLoop: the cursor moves on by one, whatever eval returned.
MainLoopCursorPlusOne ==
    /\ phase = "loop"
    /\ pc < Cardinality(DOMAIN items)
    /\ LET r == eval(items, pc)
       IN  /\ pc' = pc + 1
           /\ out' = out \o r.out \o << <<>> >>
           /\ rendered' = rendered \o r.keys
    /\ cursors' = Append(cursors, pc)
    /\ UNCHANGED <<contents, tokens, pos, items, sexps, id, ids, phase>>

\* Mutant of MainLoop: pc = eval(..) without the + 1.
MainLoopCursorStays ==
    /\ phase = "loop"
    /\ pc < Cardinality(DOMAIN items)
    /\ LET r == eval(items, pc)
       IN  /\ pc' = r.max_pc
           /\ out' = out \o r.out \o << <<>> >>
           /\ rendered' = rendered \o r.keys
    /\ cursors' = Append(cursors, pc)
    /\ UNCHANGED <<contents, tokens, pos, items, sexps, id, ids, phase>>

\* One iteration of `while pc < ast.items.len()`.
MainLoop ==
    /\ phase = "loop"
    /\ pc < Cardinality(DOMAIN items)
    /\ LET r == eval(items, pc)
       IN  /\ pc' = r.max_pc + 1
           /\ out' = out \o r.out \o << <<>> >>
           /\ rendered' = rendered \o r.keys
    /\ cursors' = Append(cursors, pc)
    /\ UNCHANGED <<contents, tokens, pos, items, sexps, id, ids, phase>>

\* The loop condition fails: main returns.
MainReturn ==
    /\ phase = "loop"
    /\ pc >= Cardinality(DOMAIN items)
    /\ phase' = "exit"
    /\ UNCHANGED <<contents, tokens, pos, items, sexps, id, ids, pc, out, rendered, cursors>>

-----------------------------------------------------------------------------
(* Specifications *)

SeqsUpTo(S, n) == UNION {[1..k -> S] : k \in 0..n}

\* Scalar tokens: a symbol, an integer, and an integer written with a leading
\* zero (Display does not give its text back).
ScalarTokens == {Str1("a"), Str1("1"), <<"0", "7">>}

\* Every kind of token read tells apart.
TokenAlphabet == OpenTokens \cup CloseTokens \cup QuoteTokens \cup ScalarTokens

\* Containers of one kind, one scalar, one marker: room for deeper nesting.
NestAlphabet == {Str1("("), Str1(")"), Str1("a"), Str1("'")}

\* main after tokenize has returned toks, for a source that has the tokens
\* one space apart.
InitWith(toks) ==
    /\ contents = Join(toks, <<" ">>)
    /\ tokens = toks
    /\ pos = 1
    /\ items = <<>>
    /\ sexps = <<>>
    /\ id = 0
    /\ ids = <<>>
    /\ phase = "read"
    /\ pc = 0
    /\ out = <<>>
    /\ rendered = <<>>
    /\ cursors = <<>>

Init == \E toks \in SeqsUpTo(TokenAlphabet, MaxLen) : InitWith(toks)

\* The characters of a source: the delimiters, a tab, and one more.
SourceChars == DelimiterChars \cup {"\t", "a"}

\* main before tokenize is called.
InitTok ==
    /\ contents \in SeqsUpTo(SourceChars, MaxSrcLen)
    /\ tokens = <<>>
    /\ pos = 1
    /\ items = <<>>
    /\ sexps = <<>>
    /\ id = 0
    /\ ids = <<>>
    /\ phase = "tokenize"
    /\ pc = 0
    /\ out = <<>>
    /\ rendered = <<>>
    /\ cursors = <<>>

InitNest == \E toks \in SeqsUpTo(NestAlphabet, MaxNestLen) : InitWith(toks)

Next ==
    \/ ReadQuote
    \/ ReadOpen
    \/ ReadClose
    \/ ReadAtom
    \/ ReadReturn
    \/ MainLoop
    \/ MainReturn

Spec == Init /\ [][Next]_vars

SpecNest == InitNest /\ [][Next]_vars

\* main runs on for as long as it has a step to take.
SpecFair == Init /\ [][Next]_vars /\ WF_vars(Next)

NextTok ==
    \/ Tokenize
    \/ Next

SpecTok == InitTok /\ [][NextTok]_vars

-----------------------------------------------------------------------------
(* What the properties speak of, read off the token vector and the arena    *)
(* without running read or eval.                                            *)

Closer(t) ==
    CASE t = Str1("(") -> Str1(")")
      [] t = Str1("[") -> Str1("]")
      [] t = Str1("{") -> Str1("}")

\* Whether the delimiters of toks[k..] pair up, open holding the opening
\* delimiters not yet closed; scalars and markers play no part.
RECURSIVE Nested(_, _, _)
Nested(toks, k, open) ==
    IF k > Len(toks) THEN open = <<>>
    ELSE IF toks[k] \in OpenTokens THEN Nested(toks, k + 1, Append(open, toks[k]))
    ELSE IF toks[k] \in CloseTokens
         THEN /\ open # <<>>
              /\ toks[k] = Closer(open[Len(open)])
              /\ Nested(toks, k + 1, SubSeq(open, 1, Len(open) - 1))
    ELSE Nested(toks, k + 1, open)

WellNested(toks) == Nested(toks, 1, <<>>)

Opens(toks, k)  == {j \in 1..k : toks[j] \in OpenTokens}
Closes(toks, k) == {j \in 1..k : toks[j] \in CloseTokens}

\* The number of containers open after the first k tokens.
Depth(toks, k) == Cardinality(Opens(toks, k)) - Cardinality(Closes(toks, k))

\* The ids of the containers opened while none was open, in source order:
\* the j-th opening delimiter opens the container of id j - 1.
TopLevelIds(toks) ==
    LET top == {j \in Opens(toks, Len(toks)) : Depth(toks, j - 1) = 0}
        nth[n \in 0..Cardinality(top)] ==
            IF n = 0 THEN 0 ELSE CHOOSE j \in top : Cardinality({i \in top : i < j}) = n - 1
    IN  [n \in 1..Cardinality(top) |-> Cardinality(Opens(toks, nth[n])) - 1]

\* The Reference children of the node under i.
Refs(ast, i) ==
    IF i \in DOMAIN ast
    THEN {ast[i].children[k].num :
            k \in {j \in 1..Len(ast[i].children) : ast[i].children[j].tag = "Reference"}}
    ELSE {}

\* i and everything reachable from it by following Reference children.
RECURSIVE ReachFrom(_, _)
ReachFrom(ast, S) ==
    LET T == S \cup UNION {Refs(ast, i) : i \in S}
    IN  IF T = S THEN S ELSE ReachFrom(ast, T)

Reach(ast, i) == ReachFrom(ast, {i})

SetMax(S) == CHOOSE m \in S : \A n \in S : n <= m

IsPrefix(s, t) == Len(s) <= Len(t) /\ s = SubSeq(t, 1, Len(s))

Returned == phase \in {"loop", "exit"}

\* The index of the first closing delimiter met while no container is open,
\* 0 when there is none.
FirstUnmatchedCloser(toks) ==
    LET S == {k \in Closes(toks, Len(toks)) : Depth(toks, k - 1) <= 0}
    IN  IF S = {} THEN 0 ELSE CHOOSE k \in S : \A j \in S : k <= j

IsMarker(t) == t \in QuoteTokens

IsScalar(t) == t \notin OpenTokens \cup CloseTokens \cup QuoteTokens

\* The token vector without its " and ' tokens.
Unquoted(toks) == SelectSeq(toks, LAMBDA t : ~IsMarker(t))

\* The index of the opening delimiter of the container of id j (the j+1-th
\* opening delimiter).
OpenIndex(toks, j) ==
    CHOOSE k \in Opens(toks, Len(toks)) : Cardinality(Opens(toks, k)) = j + 1

\* What lies directly inside the container opened just before toks[k], read
\* off the tokens: a scalar gives its inferred atom, an opening delimiter the
\* Reference to the id its position gives it. d counts the containers opened
\* inside and not yet closed.
RECURSIVE DirectlyInside(_, _, _, _)
DirectlyInside(toks, k, d, acc) ==
    IF k > Len(toks) THEN acc
    ELSE IF toks[k] \in OpenTokens
         THEN DirectlyInside(toks, k + 1, d + 1,
                  IF d = 0 THEN Append(acc, AtomReference(Cardinality(Opens(toks, k)) - 1))
                  ELSE acc)
    ELSE IF toks[k] \in CloseTokens
         THEN IF d = 0 THEN acc ELSE DirectlyInside(toks, k + 1, d - 1, acc)
    ELSE IF IsScalar(toks[k]) /\ d = 0
         THEN DirectlyInside(toks, k + 1, d, Append(acc, infer(toks[k])))
    ELSE DirectlyInside(toks, k + 1, d, acc)

ExpectedChildren(toks, j) == DirectlyInside(toks, OpenIndex(toks, j) + 1, 0, <<>>)

\* The words of s, cut at every space (two spaces in a row, or one at an end,
\* give an empty word). word is the word being gathered.
RECURSIVE SplitAt(_, _, _)
SplitAt(s, k, word) ==
    IF k > Len(s) THEN <<word>>
    ELSE IF s[k] = " " THEN <<word>> \o SplitAt(s, k + 1, <<>>)
    ELSE SplitAt(s, k + 1, Append(word, s[k]))

\* Whether w is written as a Reference is rendered: % and digits.
IsRefWord(w) == Len(w) >= 2 /\ w[1] = "%" /\ AllDigits(Tail(w))

\* The scalar literals recoverable from a rendered line ( <kind> c1 .. cn ):
\* the words between the kind and the closing parenthesis that are not
\* written as references. A blank line holds none.
LineLiterals(line) ==
    IF line = <<>> THEN <<>>
    ELSE SelectSeq(Tail(SplitAt(SubSeq(line, 2, Len(line) - 1), 1, <<>>)),
                   LAMBDA w : w # <<>> /\ ~IsRefWord(w))

RECURSIVE Literals(_)
Literals(lines) ==
    IF lines = <<>> THEN <<>> ELSE LineLiterals(lines[1]) \o Literals(Tail(lines))

Count(s, x) == Cardinality({k \in 1..Len(s) : s[k] = x})

\* Whether s and t hold the same elements the same number of times.
SameBag(s, t) ==
    /\ Len(s) = Len(t)
    /\ \A k \in 1..Len(s) : Count(s, s[k]) = Count(t, s[k])

\* Whether every element of s occurs in t at least as often as in s.
SubBag(s, t) == \A k \in 1..Len(s) : Count(s, s[k]) <= Count(t, s[k])

\* The scalar tokens of toks, in order.
ScalarsOf(toks) == SelectSeq(toks, IsScalar)

\* The indices of the scalar tokens of toks that lie inside a container.
InsideScalars(toks) == {k \in 1..Len(toks) : IsScalar(toks[k]) /\ Depth(toks, k) > 0}

\* The renderings of the inferred atoms of the scalar tokens of toks[k..] that
\* lie inside a container, in order.
RECURSIVE InsideRenderings(_, _)
InsideRenderings(toks, k) ==
    IF k > Len(toks) THEN <<>>
    ELSE IF k \in InsideScalars(toks)
         THEN <<AtomToString(infer(toks[k]))>> \o InsideRenderings(toks, k + 1)
    ELSE InsideRenderings(toks, k + 1)

-----------------------------------------------------------------------------
(* Properties *)

\* C1: on a well-nested token vector the loop of main renders the arena keys
\* in the order 0, 1, 2, ... (so none twice), and when the loop ends every key
\* of the arena has been rendered.
C1_RenderedEachOnceInOrder ==
    (Returned /\ WellNested(tokens)) =>
        /\ \A k \in 1..Len(rendered) : rendered[k] = k - 1
        /\ Len(out) = Len(rendered) + Len(cursors)
        /\ phase = "exit" => Len(rendered) = Cardinality(DOMAIN items)

\* C1 witness: a finished run over nested and sibling containers.
C1_Witness ==
    /\ phase = "exit"
    /\ WellNested(tokens)
    /\ Len(rendered) >= 3
    /\ Len(cursors) >= 2
    /\ \E i \in DOMAIN items : Refs(items, i) # {}

\* C2: on a well-nested token vector the cursor values at which main calls
\* eval are the ids of the top-level containers, in increasing order, each
\* once; when the loop ends none is missing.
C2_CursorsAreTopLevelIds ==
    (Returned /\ WellNested(tokens)) =>
        /\ IsPrefix(cursors, TopLevelIds(tokens))
        /\ \A j, k \in 1..Len(cursors) : j < k => cursors[j] < cursors[k]
        /\ phase = "exit" => cursors = TopLevelIds(tokens)

\* C2 witness: a finished run with two top-level forms, the first with a
\* nested container whose id the cursor skipped.
C2_Witness ==
    /\ phase = "exit"
    /\ WellNested(tokens)
    /\ Len(cursors) >= 2
    /\ cursors[2] >= 2

\* C3: in the arena (while read fills it and as read returns it) every
\* Reference(n) child of the node under id i has n > i, and no node reaches
\* itself by following references.
C3_ReferencesPointForward ==
    \A i \in DOMAIN items :
        /\ \A n \in Refs(items, i) : n > i
        /\ \A n \in Refs(items, i) : i \notin Reach(items, n)

\* C3 witness: read has returned an arena with a node that has two Reference
\* children.
C3_Witness ==
    /\ Returned
    /\ \E i \in DOMAIN items : Cardinality(Refs(items, i)) >= 2

\* C4: for a well-nested token vector with k opening delimiters read returns
\* an arena whose key set is 0..k-1.
C4_KeysAreDense ==
    (Returned /\ WellNested(tokens)) =>
        /\ DOMAIN items = 0..(Cardinality(Opens(tokens, Len(tokens))) - 1)
        /\ Cardinality(DOMAIN items) = Cardinality(Opens(tokens, Len(tokens)))

\* C4 witness: a returned arena of three containers, nested and siblings.
C4_Witness ==
    /\ Returned
    /\ WellNested(tokens)
    /\ Cardinality(Opens(tokens, Len(tokens))) >= 3
    /\ Depth(tokens, 2) = 2
    /\ Len(TopLevelIds(tokens)) >= 2

\* C5: for an arena read returned and any key i of it, eval at i returns the
\* largest id among i and the ids reachable from i through Reference
\* children; the value is at least i.
C5_EvalReturnsSubtreeMax ==
    Returned =>
        \A i \in DOMAIN items :
            /\ eval(items, i).max_pc = SetMax(Reach(items, i))
            /\ eval(items, i).max_pc >= i

\* C5 witness: an arena in which eval at some key returns an id two or more
\* above it, reached through a reference of a reference.
C5_Witness ==
    /\ Returned
    /\ \E i \in DOMAIN items :
          /\ eval(items, i).max_pc >= i + 2
          /\ \E n \in Refs(items, i) : Refs(items, n) # {}

\* C6: for an id that is not a key of the arena eval returns the id, prints
\* nothing and visits nothing; when main's cursor is such an id the iteration
\* only moves the cursor on by one and prints its blank line.
C6_EvalAbsentIdIsNoOp ==
    /\ [](\A i \in (0..(id + 1)) \ DOMAIN items :
             eval(items, i) = [max_pc |-> i, out |-> <<>>, keys |-> <<>>])
    /\ [][(phase = "loop" /\ pc < Cardinality(DOMAIN items) /\ pc \notin DOMAIN items) =>
             /\ pc' = pc + 1
             /\ rendered' = rendered
             /\ out' = Append(out, <<>>)
             /\ UNCHANGED <<items, phase>>]_vars

\* C6 witness: main has called eval at a cursor that is no key of the arena.
C6_Witness ==
    /\ phase = "loop"
    /\ cursors # <<>>
    /\ cursors[Len(cursors)] \notin DOMAIN items
    /\ items # <<>>

\* C7: a closing delimiter met while no container is open makes read panic
\* at that token: read never gets past it and returns no arena, and read
\* panics nowhere else.
C7_UnmatchedCloserPanics ==
    LET k == FirstUnmatchedCloser(tokens)
    IN  /\ k > 0 => /\ phase \in {"read", "panic"}
                    /\ pos <= k
                    /\ read(tokens).panicked
        /\ phase = "panic" => k > 0 /\ pos = k
        /\ (phase = "read" /\ k > 0 /\ pos = k) => ids = <<>>

\* C7 witness: read has panicked at an unmatched closing delimiter after
\* committing a container.
C7_Witness ==
    /\ phase = "panic"
    /\ items # <<>>
    /\ pos > 1

\* C8: when the tokens end while a container is still open, read does not
\* return an arena: an arena read returned lacks no reserved id.
C8_NoPartialArena ==
    Returned => (ids = <<>> /\ sexps = <<>> /\ DOMAIN items = 0..(id - 1))

\* C9: a scalar token processed while no container is open leaves items,
\* sexps, ids and id unchanged; a token vector without container delimiters
\* yields an arena with no entry.
C9_TopLevelScalarDiscarded ==
    /\ [][(InRead /\ IsScalar(tokens[pos]) /\ sexps = <<>>) =>
             (UNCHANGED <<items, sexps, ids, id, phase>> /\ pos' = pos + 1)]_vars
    /\ []((Opens(tokens, Len(tokens)) = {} /\ Closes(tokens, Len(tokens)) = {}) =>
             (DOMAIN items = {} /\ sexps = <<>> /\ id = 0 /\ phase # "panic"))

\* C9 witness: read has just processed a scalar outside every container, after
\* it committed one.
C9_Witness ==
    /\ phase = "read"
    /\ pos > 1
    /\ IsScalar(tokens[pos - 1])
    /\ sexps = <<>>
    /\ items # <<>>

\* C10: a " or ' token leaves items, sexps, ids and id unchanged in every
\* state of read; the arena read returns is the one it returns for the token
\* vector without these tokens (and it panics on one exactly when it panics on
\* the other); no node of kind string or list is opened or committed.
C10_MarkersAreNoOps ==
    /\ [][(InRead /\ IsMarker(tokens[pos])) =>
             (UNCHANGED <<items, sexps, ids, id, phase>> /\ pos' = pos + 1)]_vars
    /\ [](Returned => /\ ~read(Unquoted(tokens)).panicked
                      /\ items = read(Unquoted(tokens)).items)
    /\ [](phase = "panic" => read(Unquoted(tokens)).panicked)
    /\ [](/\ \A i \in DOMAIN items : items[i]._type \notin {TypeOf(Str1("\"")), TypeOf(Str1("'"))}
          /\ \A k \in 1..Len(sexps) : sexps[k]._type \notin {TypeOf(Str1("\"")), TypeOf(Str1("'"))})

\* C10 witness: read has returned an arena for a token vector with a marker
\* inside a container that holds a scalar after it.
C10_Witness ==
    /\ Returned
    /\ items # <<>>
    /\ \E k \in 1..(Len(tokens) - 1) :
          /\ IsMarker(tokens[k])
          /\ IsScalar(tokens[k + 1])
          /\ Depth(tokens, k) > 0

\* C11: for a well-nested token vector the children of every committed node
\* are, in source order, the inferred atom of each scalar directly inside the
\* container and a Reference(j) at the place of each directly nested container,
\* j the id under which that container is committed.
C11_ChildrenInSourceOrder ==
    (Returned /\ WellNested(tokens)) =>
        \A j \in DOMAIN items :
            /\ items[j].children = ExpectedChildren(tokens, j)
            /\ Refs(items, j) \subseteq DOMAIN items

\* C11 witness: a committed node holding a scalar, then a reference to a nested
\* container that itself holds a scalar, then a scalar (as in (a (b 1) 2)).
C11_Witness ==
    /\ Returned
    /\ WellNested(tokens)
    /\ \E j \in DOMAIN items :
          /\ Len(items[j].children) >= 3
          /\ items[j].children[1].tag = "Symbol"
          /\ items[j].children[2].tag = "Reference"
          /\ items[j].children[3].tag = "Symbol"
          /\ items[items[j].children[2].num].children # <<>>

\* C12 as claimed: when main has ended, the scalar literals recoverable from
\* what it printed are, as a multiset, the scalar tokens of the source.
C12_LiteralsRoundTrip ==
    phase = "exit" => SameBag(Literals(out), ScalarsOf(tokens))

\* C12 as amended: when main has ended over a token vector none of whose
\* scalars is written as a reference, every scalar literal recoverable from
\* what it printed is the rendering of the inferred atom of a scalar token
\* lying inside a container, counted no more often than such tokens occur;
\* when the token vector is well nested the two multisets are equal. (A scalar
\* outside every container is dropped; a numeral is printed in canonical form.)
C12_InsideLiteralsRendered ==
    (/\ phase = "exit"
     /\ \A k \in 1..Len(tokens) : ~IsRefWord(tokens[k])) =>
        /\ SubBag(Literals(out), InsideRenderings(tokens, 1))
        /\ WellNested(tokens) => SameBag(Literals(out), InsideRenderings(tokens, 1))

\* C12 witness: a finished run over a scalar outside every container and, in
\* a container, a scalar whose rendering is not its text, beside another.
C12_Witness ==
    /\ phase = "exit"
    /\ WellNested(tokens)
    /\ \E k \in 1..Len(tokens) : IsScalar(tokens[k]) /\ Depth(tokens, k) = 0
    /\ \E k \in InsideScalars(tokens) : AtomToString(infer(tokens[k])) # tokens[k]
    /\ Literals(out) # <<>>

\* The kind names of the three opening delimiters, with name the one of "[".
KindNamed(t, name) ==
    CASE t = Str1("(") -> <<"e", "x", "e", "c">>
      [] t = Str1("[") -> name
      [] t = Str1("{") -> <<"m", "a", "p">>

\* Every committed node has the kind KindNamed gives its opening delimiter,
\* its line as eval prints it starts with ( and that kind, and when main has
\* ended over well-nested tokens the i+1-th line that is not blank starts so.
KindsAre(name) ==
    /\ \A i \in DOMAIN items :
          LET kind == KindNamed(tokens[OpenIndex(tokens, i)], name)
          IN  /\ items[i]._type = kind
              /\ IsPrefix(<<"(">> \o kind \o <<" ">>, eval(items, i).out[1])
    /\ (phase = "exit" /\ WellNested(tokens)) =>
          LET lines == SelectSeq(out, LAMBDA l : l # <<>>)
          IN  /\ Len(lines) = Cardinality(DOMAIN items)
              /\ \A i \in DOMAIN items :
                    IsPrefix(<<"(">> \o KindNamed(tokens[OpenIndex(tokens, i)], name) \o <<" ">>,
                             lines[i + 1])

KeptDelimiters == {"{", "}", "[", "]", "(", ")", "\"", "'", "@", "~", Backtick}

\* All the delimiter characters.
AllDelimiters == KeptDelimiters \cup {" ", "\n"}

\* The occurrences of the characters of S in the text s, in order.
Occurrences(s, S) == SelectSeq(s, LAMBDA c : c \in S)

\* The tokens of toks that are one character of S, in order, each as its
\* character.
OwnTokens(toks, S) ==
    LET own == SelectSeq(toks, LAMBDA t : Len(t) = 1 /\ t[1] \in S)
    IN  [k \in 1..Len(own) |-> own[k][1]]

Tokenized == phase # "tokenize"

\* C14: once tokenize has returned, the tokens that are one delimiter other
\* than space and newline are, in order, the occurrences of those characters
\* in the source, and no such character lies in any other token; no token
\* longer than one character holds a delimiter; no token is exactly a space,
\* a newline or a tab.
C14_TokenizeDelimiters ==
    Tokenized =>
        /\ OwnTokens(tokens, KeptDelimiters) = Occurrences(contents, KeptDelimiters)
        /\ \A k \in 1..Len(tokens) :
              /\ Len(tokens[k]) > 1 =>
                    \A j \in 1..Len(tokens[k]) : tokens[k][j] \notin AllDelimiters
              /\ tokens[k] \notin {<<" ">>, <<"\n">>, <<"\t">>}

\* C14 witness: tokenize has returned for a source with a space or newline,
\* a character right after a delimiter, and a token of several characters.
C14_Witness ==
    /\ Tokenized
    /\ Occurrences(contents, {" ", "\n"}) # <<>>
    /\ \E k \in 2..Len(contents) : contents[k - 1] \in KeptDelimiters /\ contents[k] \notin AllDelimiters
    /\ \E k \in 1..Len(tokens) : Len(tokens[k]) > 1

\* A step of read that commits: a closing delimiter met with an id reserved.
Commits == InRead /\ tokens[pos] \in CloseTokens /\ ids # <<>>

\* C15: every step leaves each committed entry under its id as it is; only a
\* committing step of read changes the arena, and it adds one entry under an
\* id that was no key before; once read has returned the arena never changes.
C15_CommittedEntriesFixed ==
    [][/\ \A i \in DOMAIN items : i \in DOMAIN items' /\ items'[i] = items[i]
       /\ Commits =>
             /\ ids[Len(ids)] \notin DOMAIN items
             /\ DOMAIN items' = DOMAIN items \cup {ids[Len(ids)]}
       /\ ~Commits => items' = items
       /\ Returned => items' = items]_vars

\* C15 witness: main has ended having printed a line, over an arena of two
\* entries committed apart, the first before the second container was opened.
C15_Witness ==
    /\ phase = "exit"
    /\ rendered # <<>>
    /\ Cardinality(DOMAIN items) >= 2
    /\ \E k \in Closes(tokens, Len(tokens)) : \E j \in Opens(tokens, Len(tokens)) :
          k < j /\ Depth(tokens, k - 1) > 0

\* C16: over the arena read has returned, containers left open or not, eval
\* from any id returns, having printed for no more keys than the arena holds
\* and each at most once; every iteration of the loop of main leaves the
\* cursor larger than it found it, the cursor never passes the id counter,
\* and main comes to its end (or to the panic of read).
C16_Terminates ==
    /\ [](Returned =>
            \A i \in 0..(id + 1) :
                LET r == eval(items, i)
                IN  /\ r.max_pc >= i
                    /\ Len(r.keys) <= Cardinality(DOMAIN items)
                    /\ \A j, k \in 1..Len(r.keys) : r.keys[j] = r.keys[k] => j = k)
    /\ [](phase = "loop" => pc <= id)
    /\ [][(phase = "loop" /\ phase' = "loop") => pc' > pc]_vars
    /\ <>(phase \in {"exit", "panic"})

\* C16 witness: main has ended after an iteration of its loop over the arena
\* of a token vector that leaves a container open.
C16_Witness ==
    /\ phase = "exit"
    /\ cursors # <<>>
    /\ Depth(tokens, Len(tokens)) > 0

\* The positions of the Reference children of the node under i.
RefPositions(ast, i) ==
    {k \in 1..Len(ast[i].children) : ast[i].children[k].tag = "Reference"}

\* C17: in the arena read returns for a well-nested token vector, the ids
\* reachable from a node i are exactly i..eval(i); of two Reference children
\* of one node the subtrees share no id, and every id of the subtree of the
\* earlier child is below every id of the subtree of the later one.
C17_SubtreesAreRanges ==
    (Returned /\ WellNested(tokens)) =>
        \A i \in DOMAIN items :
            /\ Reach(items, i) = i..eval(items, i).max_pc
            /\ \A k1, k2 \in RefPositions(items, i) :
                  k1 < k2 =>
                      LET R1 == Reach(items, items[i].children[k1].num)
                          R2 == Reach(items, items[i].children[k2].num)
                      IN  /\ R1 \cap R2 = {}
                          /\ \A a \in R1 : \A b \in R2 : a < b

\* C17 witness: a returned arena of a well-nested token vector with a node
\* of two Reference children, the earlier with a descendant of its own.
C17_Witness ==
    /\ Returned
    /\ WellNested(tokens)
    /\ \E i \in DOMAIN items : \E k1, k2 \in RefPositions(items, i) :
          /\ k1 < k2
          /\ Cardinality(Reach(items, items[i].children[k1].num)) >= 2

\* C18: whatever tokens read has gone through, ids and sexps are equally
\* long, ids grows strictly from bottom to top, the id counter is the number
\* of opening delimiters gone through, and the keys of the arena and the ids
\* on the stack share nothing and together make up 0 .. id - 1.
C18_ReaderStacks ==
    LET reserved == {ids[k] : k \in 1..Len(ids)}
    IN  /\ Len(ids) = Len(sexps)
        /\ \A j, k \in 1..Len(ids) : j < k => ids[j] < ids[k]
        /\ id = Cardinality(Opens(tokens, pos - 1))
        /\ DOMAIN items \cap reserved = {}
        /\ DOMAIN items \cup reserved = 0..(id - 1)

\* C18 witness: read is under way with two ids reserved, not next to each
\* other, and a container committed.
C18_Witness ==
    /\ phase = "read"
    /\ Len(ids) >= 2
    /\ ids[2] > ids[1] + 1
    /\ items # <<>>

\* The ids the Reference children of the open container sexp name.
OpenRefs(sexp) ==
    {sexp.children[k].num :
        k \in {j \in 1..Len(sexp.children) : sexp.children[j].tag = "Reference"}}

\* C19: at every point of read and after it, containers left open or not,
\* every Reference child of a committed node names a key of the arena; and
\* the container read would commit next already has every container nested
\* in it committed.
C19_NoDanglingReference ==
    /\ \A i \in DOMAIN items : Refs(items, i) \subseteq DOMAIN items
    /\ (sexps # <<>> /\ Len(sexps) = Len(ids)) =>
          OpenRefs(sexps[Len(sexps)]) \subseteq DOMAIN items

\* C19 witness: read has returned an arena with a container left open and a
\* committed node that holds a Reference.
C19_Witness ==
    /\ Returned
    /\ Depth(tokens, Len(tokens)) > 0
    /\ \E i \in DOMAIN items : Refs(items, i) # {}

\* C20: a step of read on any closing delimiter, met with a container open,
\* raises no error whichever bracket opened that container: it pops the
\* innermost reserved id and the innermost open node and commits that node,
\* of the kind its opening delimiter gave it, under that id.
C20_AnyCloserCloses ==
    [][Commits =>
          LET top == ids[Len(ids)]
          IN  /\ phase' = "read"
              /\ pos' = pos + 1
              /\ ids' = SubSeq(ids, 1, Len(ids) - 1)
              /\ sexps' = SubSeq(sexps, 1, Len(sexps) - 1)
              /\ top \in DOMAIN items'
              /\ items'[top] = sexps[Len(sexps)]
              /\ items'[top]._type = TypeOf(tokens[OpenIndex(tokens, top)])]_vars

\* C20 witness: main has ended having printed the line of a container that
\* ( opened and ] closed.
C20_Witness ==
    /\ phase = "exit"
    /\ Len(tokens) >= 2
    /\ tokens[1] = Str1("(")
    /\ tokens[2] = Str1("]")
    /\ 0 \in DOMAIN items
    /\ rendered = <<0>>

=============================================================================
